---- MODULE Spec2Model ----
(***************************************************************************)
(* A model of stactools.noaa_hrrr: the forecast calendar                   *)
(* (ForecastCycleType, ForecastHourSet), the forecast-valid formatter      *)
(* (Variable.format_forecast_valid_string), create_item and the bulk       *)
(* inventory fan-out (generate_inventory_csv_gzs).                         *)
(*                                                                         *)
(* Text is modelled in two ways.  A forecast_valid_pattern, which the code *)
(* scans with regular expressions, is a sequence of one-character strings. *)
(* Text the code only builds (f-strings) is a TLA+ string; an error        *)
(* message is the sequence of the f-string's segments.                     *)
(***************************************************************************)
EXTENDS Integers, Sequences, FiniteSets, TLC

(***************************************************************************)
(* Bounds of the model                                                     *)
(***************************************************************************)
\* forecast hours are drawn from -HourMargin .. 48 + HourMargin
HourMargin == 2
\* reference datetimes are drawn from days 1..MaxDay of one month
MaxDay == 2
\* number of worker processes of mp.Pool()
PoolSize == 2
\* an index body has at most MaxRecords lines
MaxRecords == 3
\* the threads calling the core functions at the same time
NumThreads == 2

(***************************************************************************)
(* constants.py: enumerations and tables                                   *)
(***************************************************************************)
EXTENDED_FORECAST_MAX_HOUR == 48
STANDARD_FORECAST_MAX_HOUR == 18

\* the members of CloudProvider in the order of the enum
CloudProvider_members == <<"azure", "aws", "google">>

CloudProvider == {"azure", "aws", "google"}

Region == <<"conus", "alaska">>

\* Product, in the order of the enum's members
Product == <<"prs", "nat", "sfc", "subh">>

ForecastHourSet == {"fh00", "fh01-18", "fh00-01", "fh02-48"}

\* the dict's insertion order is surface, pressure, native, sub_hourly
PRODUCT_FORECAST_HOUR_SETS ==
    << <<"sfc",  <<"fh00-01", "fh02-48">> >>,
       <<"prs",  <<"fh00-01", "fh02-48">> >>,
       <<"nat",  <<"fh00-01", "fh02-48">> >>,
       <<"subh", <<"fh00", "fh01-18">> >> >>

Range(seq) == {seq[i] : i \in DOMAIN seq}

Min(S) == CHOOSE x \in S : \A y \in S : x <= y
Max(S) == CHOOSE x \in S : \A y \in S : x >= y

\* range(start, stop, step) as a list
PyRange(start, stop, step) ==
    [i \in 1..((stop - start + step - 1) \div step) |-> start + (i - 1) * step]

\* alaska given the run hours of conus
REGION_CONFIGS_Hourly ==
    [conus  |-> [herbie_model_id |-> "hrrr",
                 cycle_run_hours |-> PyRange(0, 24, 1)],
     alaska |-> [herbie_model_id |-> "hrrrak",
                 cycle_run_hours |-> PyRange(0, 24, 1)]]

\* RegionConfig.cycle_run_hours and herbie_model_id of REGION_CONFIGS
REGION_CONFIGS ==
    [conus  |-> [herbie_model_id |-> "hrrr",
                 cycle_run_hours |-> PyRange(0, 24, 1)],
     alaska |-> [herbie_model_id |-> "hrrrak",
                 cycle_run_hours |-> PyRange(0, 24, 3)]]

(***************************************************************************)
(* str() of an int, and str.join                                           *)
(***************************************************************************)
DigitChar == <<"0", "1", "2", "3", "4", "5", "6", "7", "8", "9">>

RECURSIVE NatStr(_)
NatStr(n) == IF n < 10 THEN DigitChar[n + 1]
             ELSE NatStr(n \div 10) \o DigitChar[(n % 10) + 1]

IntStr(n) == IF n < 0 THEN "-" \o NatStr(0 - n) ELSE NatStr(n)

RECURSIVE Join(_, _)
Join(sep, strs) ==
    IF strs = <<>> THEN ""
    ELSE IF Len(strs) = 1 THEN strs[1]
    ELSE strs[1] \o sep \o Join(sep, Tail(strs))

\* the text of a sequence of characters
RECURSIVE Text(_)
Text(cs) == IF cs = <<>> THEN "" ELSE cs[1] \o Text(Tail(cs))

None == "None"

Return(v) == [kind |-> "return", value |-> v, exc |-> None, msg |-> <<>>]
Raise(e, m) == [kind |-> "raise", value |-> None, exc |-> e, msg |-> m]

(***************************************************************************)
(* ForecastHourSet.from_forecast_hour_and_product                          *)
(***************************************************************************)
\* the boundary of the first bucket off by one
from_forecast_hour_and_product_OffByOne(forecast_hour, product) ==
    IF ~(0 <= forecast_hour /\ forecast_hour <= 48)
    THEN Raise("ValueError", <<"integer must within 0-48">>)
    ELSE IF product = "subh"
    THEN Return(IF forecast_hour <= 1 THEN "fh00" ELSE "fh01-18")
    ELSE Return(IF forecast_hour <= 2 THEN "fh00-01" ELSE "fh02-48")

from_forecast_hour_and_product(forecast_hour, product) ==
    IF ~(0 <= forecast_hour /\ forecast_hour <= 48)
    THEN Raise("ValueError", <<"integer must within 0-48">>)
    ELSE IF product = "subh"
    THEN Return(IF forecast_hour = 0 THEN "fh00" ELSE "fh01-18")
    ELSE Return(IF forecast_hour < 2 THEN "fh00-01" ELSE "fh02-48")

(***************************************************************************)
(* ForecastCycleType                                                       *)
(***************************************************************************)
\* __post_init__: the object, or the ValueError of an unknown type
ForecastCycleType(type) ==
    IF type \notin {"standard", "extended"}
    THEN Raise("ValueError", <<"Invalid forecast cycle type">>)
    ELSE Return([type |-> type,
                 max_forecast_hour |->
                     IF type = "standard" THEN STANDARD_FORECAST_MAX_HOUR
                     ELSE EXTENDED_FORECAST_MAX_HOUR,
                 products |->
                     IF type = "standard"
                     THEN <<"prs", "nat", "sfc", "subh">>
                     ELSE <<"prs", "nat", "sfc">>])

\* the two cycle types taken for one another
from_timestamp_and_region_Swapped(reference_datetime, region) ==
    LET extended == reference_datetime.hour % 6 = 0
    IN  ForecastCycleType(IF extended THEN "standard" ELSE "extended")

from_timestamp_and_region(reference_datetime, region) ==
    LET extended == reference_datetime.hour % 6 = 0
    IN  ForecastCycleType(IF extended THEN "extended" ELSE "standard")

\* ForecastCycleType.from_timestamp, which create_item and
\* generate_inventory_csv_gzs call and the class does not define: taken from
\* the specification's resolve_cycle_type (extended iff hour mod 6 = 0)
from_timestamp(reference_datetime) ==
    ForecastCycleType(IF reference_datetime.hour % 6 = 0
                      THEN "extended" ELSE "standard")

generate_forecast_hours(self) ==
    PyRange(1, self.max_forecast_hour + 1, 1)

\* the maximum forecast hour excluded
validate_forecast_hour_Exclusive(self, forecast_hour) ==
    LET valid == 0 <= forecast_hour /\ forecast_hour < self.max_forecast_hour
    IN  IF ~valid
        THEN Raise("ValueError",
                   <<"The provided forecast_hour (", IntStr(forecast_hour),
                     ") is not compatible with the forecast cycle type (",
                     self.type, ")">>)
        ELSE Return(None)

validate_forecast_hour(self, forecast_hour) ==
    LET valid == 0 <= forecast_hour /\ forecast_hour <= self.max_forecast_hour
    IN  IF ~valid
        THEN Raise("ValueError",
                   <<"The provided forecast_hour (", IntStr(forecast_hour),
                     ") is not compatible with the forecast cycle type (",
                     self.type, ")">>)
        ELSE Return(None)

(***************************************************************************)
(* Variable.format_forecast_valid_string                                   *)
(*                                                                         *)
(* re.search finds the leftmost position at which the expression matches;  *)
(* each quantifier is greedy.  "." matches any character but a newline.    *)
(***************************************************************************)
IsDigit(c) == c \in Range(DigitChar)

\* index of the last character of the maximal run of digits that starts at i
RECURSIVE DigitsEnd(_, _)
DigitsEnd(s, i) ==
    IF i <= Len(s) /\ IsDigit(s[i]) THEN DigitsEnd(s, i + 1) ELSE i - 1

\* index of the last character ".*" can reach from i: the one before the next
\* newline, or the end of the text
LineEnd(s, i) ==
    LET nl == {k \in i..Len(s) : s[k] = "\n"}
    IN  IF nl = {} THEN Len(s) ELSE Min(nl) - 1

HasAt(s, i, lit) ==
    /\ i >= 1
    /\ i + Len(lit) - 1 <= Len(s)
    /\ SubSeq(s, i, i + Len(lit) - 1) = lit

SP_FCST == <<" ", "f", "c", "s", "t">>

\* int() of a text of digits
RECURSIVE ParseInt(_)
ParseInt(cs) ==
    IF cs = <<>> THEN 0
    ELSE 10 * ParseInt(SubSeq(cs, 1, Len(cs) - 1))
         + (CHOOSE d \in 0..9 : DigitChar[d + 1] = cs[Len(cs)])

NoMatch == [matched |-> FALSE, groups |-> <<>>]

\* re.search(r"(\d+) (.*) fcst", s): groups (forecast_time, time_unit)
\* with the digits s[i..j], the places k where " fcst" can follow ".*"
FcstEnds(s, i) ==
    LET j == DigitsEnd(s, i)
    IN  IF j < i \/ j + 1 > Len(s) \/ s[j + 1] # " " THEN {}
        ELSE {k \in (j + 2)..(LineEnd(s, j + 2) + 1) : HasAt(s, k, SP_FCST)}

SearchFcst(s) ==
    LET starts == {i \in 1..Len(s) : FcstEnds(s, i) # {}}
    IN  IF starts = {} THEN NoMatch
        ELSE LET i == Min(starts)
                 j == DigitsEnd(s, i)
                 k == Max(FcstEnds(s, i))
             IN  [matched |-> TRUE,
                  groups |-> <<SubSeq(s, i, j), SubSeq(s, j + 2, k - 1)>>]

\* re.search(r"(\d+)-(\d)+ (.*) (.*)", s): groups (start_time, the last digit
\* of the end time, time_unit, stat)
\* with the digits s[i..j], "-", the digits s[j+2..m] and " ", the places p of
\* the space between the two ".*"
WindowSpaces(s, i) ==
    LET j == DigitsEnd(s, i)
        m == DigitsEnd(s, j + 2)
    IN  IF j < i \/ j + 1 > Len(s) \/ s[j + 1] # "-" THEN {}
        ELSE IF m < j + 2 \/ m + 1 > Len(s) \/ s[m + 1] # " " THEN {}
        ELSE {p \in (m + 2)..LineEnd(s, m + 2) : s[p] = " "}

SearchWindow(s) ==
    LET starts == {i \in 1..Len(s) : WindowSpaces(s, i) # {}}
    IN  IF starts = {} THEN NoMatch
        ELSE LET i == Min(starts)
                 j == DigitsEnd(s, i)
                 m == DigitsEnd(s, j + 2)
                 p == Max(WindowSpaces(s, i))
             IN  [matched |-> TRUE,
                  groups |-> <<SubSeq(s, i, j), <<s[m]>>,
                               SubSeq(s, m + 2, p - 1),
                               SubSeq(s, p + 1, LineEnd(s, p + 1))>>]

ANALYSIS == <<"a", "n", "a", "l", "y", "s", "i", "s">>

\* the minutes computed for "min" returned instead of dropped
FcstRule_Minutes(groups, forecast_hour) ==
    IF groups[2] = <<"m", "i", "n">>
    THEN Return(IntStr(ParseInt(groups[1]) + (forecast_hour - 1) * 60)
                \o " min fcst")
    ELSE Return(IntStr(forecast_hour) \o " hour fcst")

\* the branch of the "fcst" match
FcstRule(groups, forecast_hour) ==
    LET time_unit == groups[2]
        \* computed for "min" and never used
        forecast_time ==
            IF time_unit = <<"m", "i", "n">>
            THEN ParseInt(groups[1]) + (forecast_hour - 1) * 60
            ELSE ParseInt(groups[1])
    IN  Return(IntStr(forecast_hour) \o " hour fcst")

\* the conversion to days applied to the relative window too
WindowRule_DaysAlways(groups, forecast_hour) ==
    LET stat == groups[4]
        relative == groups[1] = <<"1">>
        days == forecast_hour % 24 = 0
        start_time == IF relative THEN forecast_hour - 1 ELSE 0
        end_time == IF days THEN forecast_hour \div 24 ELSE forecast_hour
        time_unit == IF days THEN "day" ELSE Text(groups[3])
    IN  Return(IntStr(start_time) \o "-" \o IntStr(end_time) \o " "
               \o time_unit \o " " \o Text(stat))

\* the start of a fixed window left as the pattern gives it
WindowRule_KeepStart(groups, forecast_hour) ==
    LET stat == groups[4]
        relative == groups[1] = <<"1">>
        days == ~relative /\ forecast_hour % 24 = 0
        start_time == IF relative THEN forecast_hour - 1
                      ELSE ParseInt(groups[1])
        end_time == IF days THEN forecast_hour \div 24 ELSE forecast_hour
        time_unit == IF days THEN "day" ELSE Text(groups[3])
    IN  Return(IntStr(start_time) \o "-" \o IntStr(end_time) \o " "
               \o time_unit \o " " \o Text(stat))

\* the branch of the window match
WindowRule(groups, forecast_hour) ==
    LET stat == groups[4]
        relative == groups[1] = <<"1">>
        days == ~relative /\ forecast_hour % 24 = 0
        start_time == IF relative THEN forecast_hour - 1 ELSE 0
        end_time == IF days THEN forecast_hour \div 24 ELSE forecast_hour
        time_unit == IF days THEN "day" ELSE Text(groups[3])
    IN  Return(IntStr(start_time) \o "-" \o IntStr(end_time) \o " "
               \o time_unit \o " " \o Text(stat))

\* the window matcher tried before the "fcst" matcher
format_forecast_valid_string_WindowFirst(self, forecast_hour) ==
    LET pattern == self.forecast_valid_pattern
        fcst == SearchFcst(pattern)
        window == SearchWindow(pattern)
    IN  IF pattern = ANALYSIS THEN Return("analysis")
        ELSE IF window.matched THEN WindowRule(window.groups, forecast_hour)
        ELSE IF fcst.matched THEN FcstRule(fcst.groups, forecast_hour)
        ELSE Raise("ValueError",
                   <<Text(pattern),
                     " could not be parsed into a forecast_valid string">>)

format_forecast_valid_string(self, forecast_hour) ==
    LET pattern == self.forecast_valid_pattern
        fcst == SearchFcst(pattern)
        window == SearchWindow(pattern)
    IN  IF pattern = ANALYSIS THEN Return("analysis")
        ELSE IF fcst.matched THEN FcstRule(fcst.groups, forecast_hour)
        ELSE IF window.matched THEN WindowRule(window.groups, forecast_hour)
        ELSE Raise("ValueError",
                   <<Text(pattern),
                     " could not be parsed into a forecast_valid string">>)

(***************************************************************************)
(* datetime: year, month, day, hour and minute.  The reference datetimes    *)
(* are days of May 2024, at an hour of the day and a minute of the hour.   *)
(***************************************************************************)
Minutes == {0, 30}

Datetimes ==
    [year : {2024}, month : {5}, day : 1..MaxDay, hour : 0..23, minute : Minutes]

\* datetime + timedelta(hours=h), h >= 0, within the month
PlusHours(dt, h) ==
    [dt EXCEPT !.day = dt.day + ((dt.hour + h) \div 24),
               !.hour = (dt.hour + h) % 24]

Pad2(n) == IF n < 10 THEN "0" \o NatStr(n) ELSE NatStr(n)

\* strftime("%Y-%m-%dT%H")
StrftimeHour(dt) ==
    NatStr(dt.year) \o "-" \o Pad2(dt.month) \o "-" \o Pad2(dt.day)
        \o "T" \o Pad2(dt.hour)

\* strftime("%Y-%m-%dT%H:%M:%S")
StrftimeSecond(dt) == StrftimeHour(dt) \o ":" \o Pad2(dt.minute) \o ":00"

(***************************************************************************)
(* stac.py: create_item                                                    *)
(*                                                                         *)
(* found is the answer of the object store: whether Herbie locates the     *)
(* GRIB2 file and its index for the request.  The result carries io, the   *)
(* sequence of the calls made to the store.                                *)
(***************************************************************************)
\* the reference datetime written to the minute
ITEM_ID_ToTheMinute(region, reference_datetime, forecast_hour) ==
    "hrrr-" \o region \o "-" \o StrftimeHour(reference_datetime)
            \o ":" \o Pad2(reference_datetime.minute)
            \o "-FH" \o IntStr(forecast_hour)

\* ITEM_ID_FORMAT.format(...), with strftime("%Y-%m-%dT%H")
ITEM_ID(region, reference_datetime, forecast_hour) ==
    "hrrr-" \o region \o "-" \o StrftimeHour(reference_datetime)
            \o "-FH" \o IntStr(forecast_hour)

\* the store consulted before the two checks
create_item_HerbieFirst(region, product, cloud_provider, reference_datetime, forecast_hour, found) ==
    LET region_config == REGION_CONFIGS[region]
        cycle_run_hour ==
            reference_datetime.hour \notin Range(region_config.cycle_run_hours)
        forecast_datetime == PlusHours(reference_datetime, forecast_hour)
        forecast_cycle_type == from_timestamp(reference_datetime).value
        checked == validate_forecast_hour(forecast_cycle_type, forecast_hour)
        item == [id |-> ITEM_ID(region, reference_datetime, forecast_hour),
                 datetime |-> forecast_datetime,
                 properties |->
                     [reference_time |-> StrftimeSecond(reference_datetime),
                      horizon |-> "PT" \o IntStr(forecast_hour) \o "H",
                      forecast_cycle_type |-> forecast_cycle_type.type,
                      region |-> region],
                 assets |-> {"grib", "index"}]
        herbie == [model |-> region_config.herbie_model_id,
                   date |-> reference_datetime,
                   fxx |-> forecast_hour,
                   priority |-> cloud_provider,
                   product |-> product]
    IN  IF ~found
        THEN [res |-> Raise("AssertionError", <<>>), io |-> <<herbie>>]
        ELSE IF cycle_run_hour
        THEN [res |-> Raise("ValueError",
                  <<"True", " is not a valid cycle run hour for ", region,
                    "\nPlease select one of ",
                    Join(" ,", [i \in DOMAIN region_config.cycle_run_hours |->
                                   IntStr(region_config.cycle_run_hours[i])])>>),
              io |-> <<herbie>>]
        ELSE IF checked.kind = "raise"
        THEN [res |-> checked, io |-> <<herbie>>]
        ELSE [res |-> Return(item), io |-> <<herbie>>]

create_item(region, product, cloud_provider, reference_datetime, forecast_hour, found) ==
    LET region_config == REGION_CONFIGS[region]
        \* the walrus binds the value of the whole "not in" test
        cycle_run_hour ==
            reference_datetime.hour \notin Range(region_config.cycle_run_hours)
        forecast_datetime == PlusHours(reference_datetime, forecast_hour)
        forecast_cycle_type == from_timestamp(reference_datetime).value
        checked == validate_forecast_hour(forecast_cycle_type, forecast_hour)
        item == [id |-> ITEM_ID(region, reference_datetime, forecast_hour),
                 datetime |-> forecast_datetime,
                 properties |->
                     [reference_time |-> StrftimeSecond(reference_datetime),
                      horizon |-> "PT" \o IntStr(forecast_hour) \o "H",
                      forecast_cycle_type |-> forecast_cycle_type.type,
                      region |-> region],
                 assets |-> {"grib", "index"}]
        herbie == [model |-> region_config.herbie_model_id,
                   date |-> reference_datetime,
                   fxx |-> forecast_hour,
                   priority |-> cloud_provider,
                   product |-> product]
    IN  IF cycle_run_hour
        THEN [res |-> Raise("ValueError",
                  <<IF cycle_run_hour THEN "True" ELSE "False",
                    " is not a valid cycle run hour for ", region,
                    "\nPlease select one of ",
                    Join(" ,", [i \in DOMAIN region_config.cycle_run_hours |->
                                   IntStr(region_config.cycle_run_hours[i])])>>),
              io |-> <<>>]
        ELSE IF checked.kind = "raise"
        THEN [res |-> checked, io |-> <<>>]
        ELSE IF ~found
        THEN [res |-> Raise("AssertionError", <<>>), io |-> <<herbie>>]
        ELSE [res |-> Return(item), io |-> <<herbie>>]

(***************************************************************************)
(* commands.py: the create-item command                                    *)
(*                                                                         *)
(* click converts the arguments before it calls the command: a conversion  *)
(* that fails is a usage error, which ends the process with status 2.  An  *)
(* exception raised by the command itself is not caught by click: the      *)
(* interpreter ends with status 1.                                         *)
(***************************************************************************)
\* StrEnum.from_str: the member equal to s, searched in the order of cls
RECURSIVE from_str(_, _)
from_str(cls, s) ==
    IF cls = <<>>
    THEN Raise("ValueError", <<"Could not parse value from string: ", s>>)
    ELSE IF cls[1] = s THEN Return(cls[1])
    ELSE from_str(Tail(cls), s)

\* the value of the digit c
DigitValue(c) == CHOOSE d \in 0..9 : DigitChar[d + 1] = c

DigitAt(s, i, lo, hi) ==
    /\ i >= 1 /\ i <= Len(s) /\ IsDigit(s[i])
    /\ lo <= DigitValue(s[i]) /\ DigitValue(s[i]) <= hi

\* datetime.strptime directives: the index of the last character matched
\* from i, or 0; the alternatives are tried in the order of the expression
\* %m: 1[0-2]|0[1-9]|[1-9]
MonthEnd(s, i) ==
    IF DigitAt(s, i, 1, 1) /\ DigitAt(s, i + 1, 0, 2) THEN i + 1
    ELSE IF DigitAt(s, i, 0, 0) /\ DigitAt(s, i + 1, 1, 9) THEN i + 1
    ELSE IF DigitAt(s, i, 1, 9) THEN i
    ELSE 0

\* %d: 3[0-1]|[1-2]\d|0[1-9]|[1-9]| [1-9]
DayEnd(s, i) ==
    IF DigitAt(s, i, 3, 3) /\ DigitAt(s, i + 1, 0, 1) THEN i + 1
    ELSE IF DigitAt(s, i, 1, 2) /\ DigitAt(s, i + 1, 0, 9) THEN i + 1
    ELSE IF DigitAt(s, i, 0, 0) /\ DigitAt(s, i + 1, 1, 9) THEN i + 1
    ELSE IF DigitAt(s, i, 1, 9) THEN i
    ELSE IF i <= Len(s) /\ s[i] = " " /\ DigitAt(s, i + 1, 1, 9) THEN i + 1
    ELSE 0

\* %H: 2[0-3]|[0-1]\d|\d
HourEnd(s, i) ==
    IF DigitAt(s, i, 2, 2) /\ DigitAt(s, i + 1, 0, 3) THEN i + 1
    ELSE IF DigitAt(s, i, 0, 1) /\ DigitAt(s, i + 1, 0, 9) THEN i + 1
    ELSE IF DigitAt(s, i, 0, 9) THEN i
    ELSE 0

\* the number of a field matched by DayEnd, whose first character may be " "
FieldInt(cs) == IF cs[1] = " " THEN ParseInt(Tail(cs)) ELSE ParseInt(cs)

DaysInMonth(year, month) ==
    IF month = 2
    THEN IF year % 4 = 0 /\ (year % 100 # 0 \/ year % 400 = 0) THEN 29 ELSE 28
    ELSE IF month \in {4, 6, 9, 11} THEN 30 ELSE 31

\* datetime.strptime(s, "%Y-%m-%dT%H")
Strptime(s) ==
    LET ye == IF \A i \in 1..4 : DigitAt(s, i, 0, 9) THEN 4 ELSE 0
        me == IF ye # 0 /\ HasAt(s, ye + 1, <<"-">>)
              THEN MonthEnd(s, ye + 2) ELSE 0
        de == IF me # 0 /\ HasAt(s, me + 1, <<"-">>)
              THEN DayEnd(s, me + 2) ELSE 0
        he == IF de # 0 /\ HasAt(s, de + 1, <<"T">>)
              THEN HourEnd(s, de + 2) ELSE 0
        year == ParseInt(SubSeq(s, 1, ye))
        month == ParseInt(SubSeq(s, ye + 2, me))
        day == FieldInt(SubSeq(s, me + 2, de))
        hour == ParseInt(SubSeq(s, de + 2, he))
    IN  IF he = 0
        THEN Raise("ValueError", <<"time data does not match format">>)
        ELSE IF he # Len(s)
        THEN Raise("ValueError", <<"unconverted data remains">>)
        ELSE IF year < 1 \/ day > DaysInMonth(year, month)
        THEN Raise("ValueError", <<"day is out of range for month">>)
        ELSE Return([year |-> year, month |-> month, day |-> day,
                     hour |-> hour, minute |-> 0])

\* int(s): an optional sign and digits
IntOf(s) ==
    LET digits == IF s # <<>> /\ s[1] \in {"-", "+"} THEN Tail(s) ELSE s
    IN  IF digits = <<>> \/ \E i \in DOMAIN digits : ~IsDigit(digits[i])
        THEN Raise("ValueError", <<"invalid literal for int()">>)
        ELSE Return(IF s[1] = "-" THEN 0 - ParseInt(digits)
                    ELSE ParseInt(digits))

\* click.IntRange(0, EXTENDED_FORECAST_MAX_HOUR)
IntRange(s) ==
    LET n == IntOf(s)
    IN  IF n.kind = "raise" THEN n
        ELSE IF n.value < 0 \/ n.value > EXTENDED_FORECAST_MAX_HOUR
        THEN Raise("BadParameter", <<"is not in the range 0<=x<=48">>)
        ELSE n

\* the process after the command: its exit status, the exception that ended
\* it, the files it wrote and the calls it made to the store
Exit(code, exc, msg, files, io) ==
    [res |-> [kind |-> "exit", value |-> code, exc |-> exc, msg |-> msg,
              files |-> files],
     io |-> io]

\* the item saved though create_item raised
create_item_command_SaveAnyway(region, product, cloud_provider, reference_datetime, forecast_hour, destination, found) ==
    LET dt == Strptime(reference_datetime)
        fh == IntRange(forecast_hour)
        p == from_str(Product, product)
        r == from_str(Region, region)
        c == from_str(CloudProvider_members, cloud_provider)
        item == create_item(r.value, p.value, c.value, dt.value, fh.value,
                            found)
    IN  IF dt.kind = "raise" \/ fh.kind = "raise"
        THEN Exit(2, "UsageError", <<>>, {}, <<>>)
        ELSE IF p.kind = "raise" THEN Exit(1, p.exc, p.msg, {}, <<>>)
        ELSE IF r.kind = "raise" THEN Exit(1, r.exc, r.msg, {}, <<>>)
        ELSE IF c.kind = "raise" THEN Exit(1, c.exc, c.msg, {}, <<>>)
        ELSE IF item.res.kind = "raise"
        THEN Exit(1, item.res.exc, item.res.msg, {destination}, item.io)
        ELSE Exit(0, None, <<>>, {destination}, item.io)

create_item_command(region, product, cloud_provider, reference_datetime, forecast_hour, destination, found) ==
    LET dt == Strptime(reference_datetime)
        fh == IntRange(forecast_hour)
        p == from_str(Product, product)
        r == from_str(Region, region)
        c == from_str(CloudProvider_members, cloud_provider)
        item == create_item(r.value, p.value, c.value, dt.value, fh.value,
                            found)
    IN  IF dt.kind = "raise" \/ fh.kind = "raise"
        THEN Exit(2, "UsageError", <<>>, {}, <<>>)
        ELSE IF p.kind = "raise" THEN Exit(1, p.exc, p.msg, {}, <<>>)
        ELSE IF r.kind = "raise" THEN Exit(1, r.exc, r.msg, {}, <<>>)
        ELSE IF c.kind = "raise" THEN Exit(1, c.exc, c.msg, {}, <<>>)
        ELSE IF item.res.kind = "raise"
        THEN Exit(1, item.res.exc, item.res.msg, {}, item.io)
        ELSE \* item.save_object(dest_href=destination)
             Exit(0, None, <<>>, {destination}, item.io)

(***************************************************************************)
(* inventory.py: the bulk fan-out of generate_inventory_csv_gzs            *)
(***************************************************************************)
dummy_datetime ==
    [year |-> 2024, month |-> 5, day |-> 1, hour |-> 0, minute |-> 0]

\* ForecastHourSet.generate_forecast_hours, which generate_inventory_csv_gzs
\* calls and the enum does not define: taken from the specification's
\* ForecastHourSet, the contiguous range of hours of the bucket
ForecastHourSet_generate_forecast_hours(forecast_hour_set) ==
    CASE forecast_hour_set = "fh00"    -> PyRange(0, 1, 1)
      [] forecast_hour_set = "fh01-18" -> PyRange(1, 19, 1)
      [] forecast_hour_set = "fh00-01" -> PyRange(0, 2, 1)
      [] forecast_hour_set = "fh02-48" -> PyRange(2, 49, 1)

\* the list of a set of small ints, which CPython iterates in ascending order
RECURSIVE SortedList(_)
SortedList(S) ==
    IF S = {} THEN <<>> ELSE <<Min(S)>> \o SortedList(S \ {Min(S)})

CYCLE_RUN_HOURS == <<3, 6>>

\* the iterations of the four nested loops, in order
NumLoops ==
    Len(Region) * Len(PRODUCT_FORECAST_HOUR_SETS) * Len(CYCLE_RUN_HOURS) * 2

LoopAt(n) ==
    LET entry == PRODUCT_FORECAST_HOUR_SETS[(((n - 1) \div 4) % 4) + 1]
    IN  [region |-> Region[((n - 1) \div 16) + 1],
         product |-> entry[1],
         cycle_run_hour |-> CYCLE_RUN_HOURS[(((n - 1) \div 2) % 2) + 1],
         forecast_hour_set |-> entry[2][((n - 1) % 2) + 1]]

\* the tasks list of one iteration
TasksAt(n) ==
    LET it == LoopAt(n)
        forecast_cycle_type ==
            from_timestamp(PlusHours(dummy_datetime, it.cycle_run_hour)).value
        allowed_forecast_hours == generate_forecast_hours(forecast_cycle_type)
        hours == SortedList(
            Range(ForecastHourSet_generate_forecast_hours(it.forecast_hour_set))
            \cap Range(allowed_forecast_hours))
    IN  [i \in DOMAIN hours |->
            [region |-> it.region,
             product |-> it.product,
             forecast_cycle_type |-> forecast_cycle_type.type,
             cycle_run_hour |-> it.cycle_run_hour,
             forecast_hour_set |-> it.forecast_hour_set,
             forecast_hour |-> hours[i]]]

INVENTORY_CSV_GZ(task) ==
    "inventory__" \o task.region \o "__" \o task.product \o "__"
        \o task.forecast_hour_set \o "__" \o task.forecast_cycle_type
        \o ".csv.gz"

FileAt(n) ==
    LET it == LoopAt(n)
    IN  INVENTORY_CSV_GZ(
            [region |-> it.region, product |-> it.product,
             forecast_hour_set |-> it.forecast_hour_set,
             forecast_cycle_type |->
                 from_timestamp(PlusHours(dummy_datetime,
                                          it.cycle_run_hour)).value.type])

\* what the object store answers to the Herbie request of one task
Answers == {"found", "NotFoundError", "OtherError"}

\* no exception is caught around Herbie(...).inventory()
generate_single_inventory_df(task, answer) ==
    IF answer = "found"
    THEN Return([forecast_hour |-> task.forecast_hour,
                 region |-> task.region,
                 product |-> task.product,
                 forecast_hour_set |-> task.forecast_hour_set,
                 forecast_cycle_type |-> task.forecast_cycle_type])
    ELSE Raise(answer, <<>>)

\* Pool.starmap cuts the tasks into chunks: divmod(len, 4 * processes)
ChunkSize(n) ==
    IF n = 0 THEN 0
    ELSE (n \div (4 * PoolSize)) + (IF n % (4 * PoolSize) = 0 THEN 0 ELSE 1)

NumChunks(n) ==
    IF n = 0 THEN 0
    ELSE (n \div ChunkSize(n)) + (IF n % ChunkSize(n) = 0 THEN 0 ELSE 1)

\* the tasks of chunk c
ChunkTasks(tasklist, c) ==
    LET size == ChunkSize(Len(tasklist))
        last == IF c * size < Len(tasklist) THEN c * size ELSE Len(tasklist)
    IN  SubSeq(tasklist, (c - 1) * size + 1, last)

\* mapstar in a worker: the chunk's tasks in order, where the task at place
\* failing (0: none) gets the answer kind from the store and the ones before it
\* are found; the first exception ends the chunk
mapstar(chunk, failing, kind) ==
    IF failing = 0
    THEN Return([i \in DOMAIN chunk |->
                    generate_single_inventory_df(chunk[i], "found").value])
    ELSE generate_single_inventory_df(chunk[failing], kind)

\* MapResult._set: the first exception is kept, the later ones are dropped
\* (on success value is the list of all results, which starmap returns)
MapResultSet(mr, c, outcome) ==
    IF outcome.kind = "return" /\ mr.success
    THEN [mr EXCEPT !.number_left = @ - 1]
    ELSE IF outcome.kind = "raise" /\ mr.success
    THEN [mr EXCEPT !.number_left = @ - 1, !.success = FALSE,
                    !.value = outcome.exc]
    ELSE [mr EXCEPT !.number_left = @ - 1]

NewMapResult(n) ==
    [number_left |-> NumChunks(n), success |-> TRUE, value |-> None]

(***************************************************************************)
(* Index Parser                                                            *)
(*                                                                         *)
(* The code obtains the records of an index from Herbie(...).inventory()   *)
(* and keeps the columns of DATA_COLS; the parser itself is written from   *)
(* section 4.2 of the specification.  An index body is the sequence of its *)
(* lines, a line a sequence of characters with ":" between its six fields: *)
(* row number, start offset, reference timestamp, variable, level and      *)
(* forecast time.                                                          *)
(***************************************************************************)
\* a nullable integer: null, or the number
Null == <<>>
Some(n) == <<n>>

\* the fields of a line: str.split(sep)
RECURSIVE Split(_, _)
Split(cs, sep) ==
    LET at == {i \in 1..Len(cs) : cs[i] = sep}
    IN  IF at = {} THEN <<cs>>
        ELSE <<SubSeq(cs, 1, Min(at) - 1)>>
             \o Split(SubSeq(cs, Min(at) + 1, Len(cs)), sep)

\* the line can be split into six fields, row number and start offset being
\* non-negative integers
WellFormedLine(line) ==
    LET fields == Split(line, ":")
    IN  /\ Len(fields) = Len(<<"row", "start", "date", "var", "level", "time">>)
        /\ fields[1] # <<>> /\ \A i \in DOMAIN fields[1] : IsDigit(fields[1][i])
        /\ fields[2] # <<>> /\ \A i \in DOMAIN fields[2] : IsDigit(fields[2][i])

\* the records sorted by row number (insertion into a sorted list)
RECURSIVE SortByRow(_)
SortByRow(records) ==
    IF records = <<>> THEN <<>>
    ELSE LET rest == SortByRow(Tail(records))
             r == records[1]
             before == SelectSeq(rest, LAMBDA x : x.row_number < r.row_number)
             after == SelectSeq(rest, LAMBDA x : x.row_number >= r.row_number)
         IN  before \o <<r>> \o after

\* the length of a record taken to its last byte, one short of the next offset
parse_index_EndByte(body) ==
    IF \E i \in DOMAIN body : ~WellFormedLine(body[i])
    THEN Raise("MalformedIndexError", <<>>)
    ELSE LET rows == SortByRow(
                 [i \in DOMAIN body |->
                     LET fields == Split(body[i], ":")
                     IN  [row_number |-> ParseInt(fields[1]),
                          start_byte |-> ParseInt(fields[2]),
                          variable |-> fields[4],
                          level |-> fields[5],
                          forecast_time |-> fields[6]]])
         IN  Return([i \in DOMAIN rows |->
                 [row_number |-> rows[i].row_number,
                  variable |-> rows[i].variable,
                  level |-> rows[i].level,
                  forecast_time |-> rows[i].forecast_time,
                  start_byte |-> rows[i].start_byte,
                  byte_length |->
                      IF i < Len(rows)
                      THEN Some(rows[i + 1].start_byte
                                - rows[i].start_byte - 1)
                      ELSE Null]])

\* one IndexRecord per line, in row-number order; the byte_length of the last
\* record is null
parse_index(body) ==
    IF \E i \in DOMAIN body : ~WellFormedLine(body[i])
    THEN Raise("MalformedIndexError", <<>>)
    ELSE LET rows == SortByRow(
                 [i \in DOMAIN body |->
                     LET fields == Split(body[i], ":")
                     IN  [row_number |-> ParseInt(fields[1]),
                          start_byte |-> ParseInt(fields[2]),
                          variable |-> fields[4],
                          level |-> fields[5],
                          forecast_time |-> fields[6]]])
         IN  Return([i \in DOMAIN rows |->
                 [row_number |-> rows[i].row_number,
                  variable |-> rows[i].variable,
                  level |-> rows[i].level,
                  forecast_time |-> rows[i].forecast_time,
                  start_byte |-> rows[i].start_byte,
                  byte_length |->
                      IF i < Len(rows)
                      THEN Some(rows[i + 1].start_byte - rows[i].start_byte)
                      ELSE Null]])

(***************************************************************************)
(* Layer Assembler                                                         *)
(*                                                                         *)
(* Written from section 4.4 of the specification: no function of the code  *)
(* joins index records with the reference inventory.  The forecast-time    *)
(* text of a layer is the code's format_forecast_valid_string.             *)
(***************************************************************************)
\* str.replace(" ", "_")
Underscored(cs) == [i \in DOMAIN cs |-> IF cs[i] = " " THEN "_" ELSE cs[i]]

\* variable__level__forecast-time
LayerKey(variable, level, forecast_time) ==
    Join("__", <<Text(variable), Text(Underscored(level)), forecast_time>>)

\* the records from place i on added to the map layers; the Variable of a
\* record is the row of the reference inventory at its row position
\* (a record whose key the map holds replaces the entry)
RECURSIVE AssembleFrom_Overwrite(_, _, _, _, _)
AssembleFrom_Overwrite(index_records, inventory, forecast_hour, i, layers) ==
    IF i > Len(index_records) THEN Return(layers)
    ELSE LET record == index_records[i]
             rendered == format_forecast_valid_string(
                             inventory[record.row_number], forecast_hour)
             key == LayerKey(record.variable, record.level, rendered.value)
             descriptor == [variable |-> Text(record.variable),
                            level |-> Text(record.level),
                            forecast_time |-> rendered.value,
                            start_byte |-> record.start_byte,
                            byte_length |-> record.byte_length]
         IN  IF rendered.kind = "raise" THEN rendered
             ELSE AssembleFrom_Overwrite(
                      index_records, inventory, forecast_hour, i + 1,
                      [k \in DOMAIN layers \cup {key} |->
                          IF k = key THEN descriptor ELSE layers[k]])

\* (a record whose key the map holds already is a collision)
RECURSIVE AssembleFrom(_, _, _, _, _)
AssembleFrom(index_records, inventory, forecast_hour, i, layers) ==
    IF i > Len(index_records) THEN Return(layers)
    ELSE LET record == index_records[i]
             rendered == format_forecast_valid_string(
                             inventory[record.row_number], forecast_hour)
             key == LayerKey(record.variable, record.level, rendered.value)
             descriptor == [variable |-> Text(record.variable),
                            level |-> Text(record.level),
                            forecast_time |-> rendered.value,
                            start_byte |-> record.start_byte,
                            byte_length |-> record.byte_length]
         IN  IF rendered.kind = "raise" THEN rendered
             ELSE IF key \in DOMAIN layers
             THEN Raise("LayerKeyCollisionError", <<key>>)
             ELSE AssembleFrom(
                      index_records, inventory, forecast_hour, i + 1,
                      [k \in DOMAIN layers \cup {key} |->
                          IF k = key THEN descriptor ELSE layers[k]])

\* the map without entries
NoLayers == [k \in {} |-> None]

assemble_Overwrite(index_records, inventory, forecast_hour) ==
    AssembleFrom_Overwrite(index_records, inventory, forecast_hour, 1, NoLayers)

assemble(index_records, inventory, forecast_hour) ==
    AssembleFrom(index_records, inventory, forecast_hour, 1, NoLayers)

(***************************************************************************)
(* Inputs                                                                  *)
(***************************************************************************)
Hours == (0 - HourMargin)..(EXTENDED_FORECAST_MAX_HOUR + HourMargin)

CycleTypeNames == {"standard", "extended", "hourly"}

SP == <<" ">>
W_hour == <<"h", "o", "u", "r">>
W_min == <<"m", "i", "n">>
W_day == <<"d", "a", "y">>
W_acc == <<"a", "c", "c">>
W_ave == <<"a", "v", "e">>
W_max == <<"m", "a", "x">>

Numbers ==
    {<<"0">>, <<"1">>, <<"2">>, <<"3">>, <<"0", "1">>, <<"1", "0">>,
     <<"1", "1">>, <<"2", "4">>}

EndNumbers == {<<"1">>, <<"2">>, <<"2", "4">>}

UnitWords == {W_hour, W_min, W_day}

\* the aggregation keywords of a windowed pattern
StatWords == {W_acc, W_ave, W_max}

InstantPatterns == {n \o SP \o u \o SP_FCST : n \in Numbers, u \in UnitWords}

WindowPatterns ==
    {w[1] \o <<"-">> \o w[2] \o SP \o w[3] \o SP \o w[4] :
        w \in Numbers \X EndNumbers \X UnitWords \X StatWords}

\* texts of no documented form
OddPatterns ==
    {<<>>,
     <<"a", "n", "l">>,
     ANALYSIS \o SP,
     W_hour \o SP_FCST,
     <<"3">> \o SP \o W_hour,
     <<"3">> \o SP_FCST,
     <<"3">> \o SP \o SP_FCST,
     <<"1", "-", "2">>,
     <<"1", "-", "2">> \o SP \o W_hour,
     <<"-", "2">> \o SP \o W_hour \o SP \o W_acc,
     <<"1", "-">> \o SP \o W_hour \o SP \o W_acc,
     <<"x">> \o SP \o <<"3">> \o SP \o W_hour \o SP_FCST,
     <<"3">> \o SP \o W_hour \o SP_FCST \o SP \o <<"x">>,
     <<"0", "-", "1">> \o SP \o W_hour \o SP \o W_acc \o SP_FCST,
     <<"1", "-", "2">> \o SP \o W_hour \o SP_FCST,
     <<"a", "1", "-", "2">> \o SP \o W_hour \o SP \o W_ave,
     <<"1", "-", "2">> \o SP \o W_hour \o SP \o W_ave \o SP \o <<"x">>,
     <<"3">> \o SP \o W_hour \o <<"\n">> \o SP_FCST,
     <<"1", "-", "2">> \o SP \o W_hour \o <<"\n">> \o SP \o W_ave}

Patterns == {ANALYSIS} \cup InstantPatterns \cup WindowPatterns \cup OddPatterns

V_TMP == <<"T", "M", "P">>
V_APCP == <<"A", "P", "C", "P">>
LV_2M == <<"2", " ", "m", " ", "a", "b", "o", "v", "e", " ", "g", "n", "d">>
LV_SFC == <<"s", "u", "r", "f", "a", "c", "e">>
T_ANL == <<"a", "n", "l">>

\* rows of a reference inventory: parameter, level and forecast_valid_pattern
InventoryRows ==
    {<<V_TMP, LV_2M, <<"3">> \o SP \o W_hour \o SP_FCST>>,
     <<V_TMP, LV_2M, ANALYSIS>>,
     <<V_APCP, LV_SFC, <<"0", "-", "1">> \o SP \o W_hour \o SP \o W_acc>>,
     <<V_APCP, LV_SFC, <<"0", "-", "2", "4">> \o SP \o W_hour \o SP \o W_acc>>,
     <<V_APCP, LV_SFC, <<"1", "-", "2">> \o SP \o W_hour \o SP \o W_acc>>,
     <<V_APCP, LV_SFC, T_ANL>>}

\* the forecast hours layers are assembled for
AssembleHours == {0, 1, 5, 24}

\* the digits of a natural number
RECURSIVE NatChars(_)
NatChars(n) == IF n < 10 THEN <<DigitChar[n + 1]>>
               ELSE NatChars(n \div 10) \o <<DigitChar[(n % 10) + 1]>>

IntChars(n) == IF n < 0 THEN <<"-">> \o NatChars(0 - n) ELSE NatChars(n)

Pad2Chars(n) == IF n < 10 THEN <<"0">> \o NatChars(n) ELSE NatChars(n)

\* the arguments of the create-item command: the texts, each with the value
\* it denotes (null when it denotes none)
CliRegions == {"conus", "alaska", "hawaii"}
CliProducts == {"sfc", "subh", "xyz"}
CliProviders == {"azure", "ibm"}

CliDate == <<"2", "0", "2", "4", "-", "0", "5", "-", "0", "1">>

CliDatetimes ==
    {[text |-> CliDate \o <<"T">> \o Pad2Chars(h),
      meaning |-> Some([year |-> 2024, month |-> 5, day |-> 1, hour |-> h,
                        minute |-> 0])] : h \in 0..23}
    \cup {[text |-> <<"2", "0", "2", "4", "-", "0", "5", "-", "1", "T", "6">>,
           meaning |-> Some([year |-> 2024, month |-> 5, day |-> 1,
                             hour |-> 6, minute |-> 0])]}
    \cup {[text |-> t, meaning |-> Null] :
             t \in {CliDate,
                    CliDate \o <<"T", "2", "4">>,
                    CliDate \o <<"T", "0", "6", ":", "3", "0">>,
                    <<"2", "0", "2", "4", "-", "0", "2", "-", "3", "0", "T",
                      "0", "0">>,
                    <<"c", "o", "n", "u", "s">>}}

CliHourValues ==
    ((0 - HourMargin)..(0 - 1))
        \cup {0, STANDARD_FORECAST_MAX_HOUR, STANDARD_FORECAST_MAX_HOUR + 1,
              30, EXTENDED_FORECAST_MAX_HOUR}
        \cup ((EXTENDED_FORECAST_MAX_HOUR + 1)
                 ..(EXTENDED_FORECAST_MAX_HOUR + HourMargin))

CliHours ==
    {[text |-> IntChars(h), meaning |-> Some(h)] : h \in CliHourValues}
    \cup {[text |-> t, meaning |-> Null] :
             t \in {<<"x">>, <<"1", ".", "5">>, <<>>}}

\* the start offsets an index line may carry
OffsetChoices == {0, 120, 340, 500, 1000}

\* the ascending lists of at most MaxRecords start offsets
OffsetLists == {SortedList(S) : S \in {T \in SUBSET OffsetChoices :
                                           Cardinality(T) <= MaxRecords}}

\* variable, level and forecast time of a line
LineLayers == {<<V_TMP, LV_2M, T_ANL>>, <<V_APCP, LV_SFC, T_ANL>>}

IndexLine(row, start, layer) ==
    NatChars(row) \o <<":">> \o NatChars(start) \o <<":">>
        \o <<"d", "=", "2", "0", "2", "4", "0", "5", "0", "1", "0", "6">>
        \o <<":">> \o layer[1] \o <<":">> \o layer[2] \o <<":">> \o layer[3]

Reverse(seq) == [i \in DOMAIN seq |-> seq[Len(seq) + 1 - i]]

\* index bodies with the start offsets of their lines in row-number order;
\* well_formed is false of a body with a line that cannot be parsed
IndexBodies ==
    LET good == UNION {
            {[body |-> [i \in DOMAIN offs |-> IndexLine(i, offs[i], layers[i])],
              well_formed |-> TRUE, start_offsets |-> offs] :
                 layers \in [DOMAIN offs -> LineLayers]} : offs \in OffsetLists}
        \* the lines of the file in another order than their row numbers
        shuffled == {[b EXCEPT !.body = Reverse(b.body)] : b \in good}
        line == IndexLine(1, 0, <<V_TMP, LV_2M, T_ANL>>)
        broken == {<<SubSeq(line, 1, Len(line) - 4)>>,
                   <<line, <<"2", ":", "x", "1", "2", "0">> \o SubSeq(line, 4, Len(line))>>,
                   <<<<"1", ":", "-", "5">> \o SubSeq(line, 4, Len(line))>>,
                   <<line \o <<":">> >>}
    IN  good \cup shuffled
        \cup {[body |-> b, well_formed |-> FALSE, start_offsets |-> <<>>] :
                  b \in broken}

(***************************************************************************)
(* Concurrent callers of the core functions.  A thread runs one call, one   *)
(* statement at a time; a statement reads the module's tables and the      *)
(* attributes of self when it executes, so a write by another thread        *)
(* between two statements would be seen.  The labels are the lines of      *)
(* constants.py.                                                           *)
(***************************************************************************)
Threads == 1..NumThreads

\* the Variables of one reference inventory file
VariableList ==
    << [row_number |-> 1, level_layer |-> LV_2M, parameter |-> V_TMP,
        forecast_valid_pattern |-> ANALYSIS],
       [row_number |-> 2, level_layer |-> LV_2M, parameter |-> V_TMP,
        forecast_valid_pattern |-> <<"3">> \o SP \o W_hour \o SP_FCST],
       [row_number |-> 3, level_layer |-> LV_SFC, parameter |-> V_APCP,
        forecast_valid_pattern |->
            <<"0", "-", "1">> \o SP \o W_hour \o SP \o W_acc],
       [row_number |-> 4, level_layer |-> LV_SFC, parameter |-> V_APCP,
        forecast_valid_pattern |-> T_ANL] >>

\* INVENTORY[product, forecast_hour_set], filled at import for every product
\* and each of its forecast hour sets
INVENTORY ==
    [key \in UNION {{<<PRODUCT_FORECAST_HOUR_SETS[p][1],
                       PRODUCT_FORECAST_HOUR_SETS[p][2][s]>> :
                          s \in DOMAIN PRODUCT_FORECAST_HOUR_SETS[p][2]} :
                       p \in DOMAIN PRODUCT_FORECAST_HOUR_SETS}
        |-> VariableList]

\* the module's globals once the import is over
Globals ==
    [INVENTORY |-> INVENTORY,
     REGION_CONFIGS |-> REGION_CONFIGS,
     PRODUCT_FORECAST_HOUR_SETS |-> PRODUCT_FORECAST_HOUR_SETS]

\* the frame of a thread: the statement it is at, the call, its local
\* variables, the outcome of the call, and whether another thread was inside
\* a call when it entered its own
Frame(at, op, args, locals, res, overlaps) ==
    [pc |-> at, op |-> op, args |-> args, locals |-> locals, res |-> res,
     overlaps |-> overlaps]

IdleFrame == Frame("idle", None, [none |-> None], <<>>, Return(None), FALSE)

Goto(frame, at, locals) == [frame EXCEPT !.pc = at, !.locals = locals]

Done(frame, res) == [frame EXCEPT !.pc = "done", !.locals = <<>>, !.res = res]

\* line 185 assigning to the attribute of self instead of the local
format_step_StoresOnSelf(globals, frame) ==
    LET key == frame.args.key
        index == frame.args.index
        self == globals.INVENTORY[key][index]
        pattern == self.forecast_valid_pattern
        forecast_hour == frame.args.forecast_hour
        fcst == SearchFcst(pattern)
        window == SearchWindow(pattern)
    IN  CASE frame.pc = "L177" ->
               [globals |-> globals,
                frame |-> IF pattern = ANALYSIS
                          THEN Done(frame, Return("analysis"))
                          ELSE Goto(frame, "L180", <<>>)]
          [] frame.pc = "L180" ->
               [globals |-> globals,
                frame |-> IF fcst.matched
                          THEN Goto(frame, "L183", fcst.groups)
                          ELSE Goto(frame, "L189", <<>>)]
          [] frame.pc = "L183" ->
               [globals |->
                    [globals EXCEPT
                        !.INVENTORY[key][index].forecast_valid_pattern =
                            IntChars(ParseInt(frame.locals[1])
                                     + (forecast_hour - 1) * 60)],
                frame |-> Done(frame, FcstRule(frame.locals, forecast_hour))]
          [] frame.pc = "L189" ->
               [globals |-> globals,
                frame |-> IF window.matched
                          THEN Goto(frame, "L190", window.groups)
                          ELSE Goto(frame, "L204", <<>>)]
          [] frame.pc = "L190" ->
               [globals |-> globals,
                frame |-> Done(frame, WindowRule(frame.locals, forecast_hour))]
          [] frame.pc = "L204" ->
               [globals |-> globals,
                frame |-> Done(frame,
                               Raise("ValueError",
                                     <<Text(pattern),
                                       " could not be parsed into a forecast_valid string">>))]

\* one statement of Variable.format_forecast_valid_string, self being
\* INVENTORY[key][index]: the globals and the frame after it
format_step(globals, frame) ==
    LET key == frame.args.key
        index == frame.args.index
        self == globals.INVENTORY[key][index]
        pattern == self.forecast_valid_pattern
        forecast_hour == frame.args.forecast_hour
        fcst == SearchFcst(pattern)
        window == SearchWindow(pattern)
    IN  CASE frame.pc = "L177" ->
               [globals |-> globals,
                frame |-> IF pattern = ANALYSIS
                          THEN Done(frame, Return("analysis"))
                          ELSE Goto(frame, "L180", <<>>)]
          [] frame.pc = "L180" ->
               [globals |-> globals,
                frame |-> IF fcst.matched
                          THEN Goto(frame, "L183", fcst.groups)
                          ELSE Goto(frame, "L189", <<>>)]
          [] frame.pc = "L183" ->
               [globals |-> globals,
                frame |-> Done(frame, FcstRule(frame.locals, forecast_hour))]
          [] frame.pc = "L189" ->
               [globals |-> globals,
                frame |-> IF window.matched
                          THEN Goto(frame, "L190", window.groups)
                          ELSE Goto(frame, "L204", <<>>)]
          [] frame.pc = "L190" ->
               [globals |-> globals,
                frame |-> Done(frame, WindowRule(frame.locals, forecast_hour))]
          [] frame.pc = "L204" ->
               [globals |-> globals,
                frame |-> Done(frame,
                               Raise("ValueError",
                                     <<Text(pattern),
                                       " could not be parsed into a forecast_valid string">>))]

\* one statement of from_timestamp_and_region, of validate_forecast_hour (on
\* a ForecastCycleType the thread made) or of from_forecast_hour_and_product:
\* none of them names a global
calendar_step(globals, frame) ==
    LET args == frame.args
    IN  CASE frame.pc = "L135" ->
               [globals |-> globals,
                frame |-> Goto(frame, "L136",
                               <<args.reference_datetime.hour % 6 = 0>>)]
          [] frame.pc = "L136" ->
               [globals |-> globals,
                frame |-> Done(frame,
                               ForecastCycleType(IF frame.locals[1]
                                                 THEN "extended"
                                                 ELSE "standard"))]
          [] frame.pc = "L148" ->
               [globals |-> globals,
                frame |-> Goto(frame, "L149",
                               <<0 <= args.forecast_hour
                                 /\ args.forecast_hour
                                        <= ForecastCycleType(args.type)
                                               .value.max_forecast_hour>>)]
          [] frame.pc = "L149" ->
               [globals |-> globals,
                frame |-> Done(frame,
                               IF ~frame.locals[1]
                               THEN Raise("ValueError",
                                          <<"The provided forecast_hour (",
                                            IntStr(args.forecast_hour),
                                            ") is not compatible with the forecast cycle type (",
                                            args.type, ")">>)
                               ELSE Return(None))]
          [] frame.pc = "L83" ->
               [globals |-> globals,
                frame |-> IF ~(0 <= args.forecast_hour
                               /\ args.forecast_hour <= 48)
                          THEN Done(frame,
                                    Raise("ValueError",
                                          <<"integer must within 0-48">>))
                          ELSE Goto(frame, "L85", <<>>)]
          [] frame.pc = "L85" ->
               [globals |-> globals,
                frame |-> Done(frame,
                               Return(IF args.product = "subh"
                                      THEN IF args.forecast_hour = 0
                                           THEN "fh00" ELSE "fh01-18"
                                      ELSE IF args.forecast_hour < 2
                                           THEN "fh00-01" ELSE "fh02-48"))]

\* the calls the threads make
ThreadCalls ==
    {<<"L177", "format_forecast_valid_string",
       [key |-> <<"sfc", "fh02-48">>, index |-> i, forecast_hour |-> h]>> :
          i \in {2, 3}, h \in {5, 24}}
    \cup {<<"L177", "format_forecast_valid_string",
            [key |-> <<"sfc", "fh02-48">>, index |-> i,
             forecast_hour |-> 5]>> : i \in {1, 4}}
    \cup {<<"L135", "from_timestamp_and_region",
            [reference_datetime |-> [dummy_datetime EXCEPT !.hour = 6],
             region |-> "conus"]>>,
          <<"L148", "validate_forecast_hour",
            [type |-> "standard",
             forecast_hour |-> STANDARD_FORECAST_MAX_HOUR + 1]>>,
          <<"L83", "from_forecast_hour_and_product",
            [forecast_hour |-> 1, product |-> "subh"]>>}

(***************************************************************************)
(* State                                                                   *)
(***************************************************************************)
VARIABLES
    pc,          \* "idle" before a call, "starmap" inside
                 \* generate_inventory_csv_gzs, "returned" after a call
    ret,         \* the last call: its name, arguments, result and store calls
    loop,        \* the iteration of generate_inventory_csv_gzs (0: not running)
    tasks,       \* the tasks list of the iteration
    taskqueue,   \* the next chunk the pool hands to a worker
    running,     \* the chunks the workers are executing
    map_result,  \* the MapResult of pool.starmap
    raised,      \* the kinds of exception the tasks of the fan-out raised
    files,       \* the files written by the running call
    globals,     \* INVENTORY, REGION_CONFIGS and PRODUCT_FORECAST_HOUR_SETS
    threads      \* the frames of the threads calling the core functions

vars ==
    <<pc, ret, loop, tasks, taskqueue, running, map_result, raised, files,
      globals, threads>>

batch == <<loop, tasks, taskqueue, running, map_result, raised, files>>

shared == <<globals, threads>>

NoRaised == {}

Called(op, args, res, io) ==
    [op |-> op, args |-> args, res |-> res, io |-> io, fanout |-> None]

Init ==
    /\ pc = "idle"
    /\ ret = Called("import", None, Return(None), <<>>)
    /\ loop = 0
    /\ tasks = <<>>
    /\ taskqueue = 0
    /\ running = {}
    /\ map_result = NewMapResult(0)
    /\ raised = NoRaised
    /\ files = {}
    /\ globals = Globals
    /\ threads = [t \in Threads |-> IdleFrame]

(***************************************************************************)
(* Calls of the calendar and of the formatter                              *)
(***************************************************************************)
FromTimestampAndRegion ==
    /\ pc = "idle"
    /\ \E dt \in Datetimes, region \in Range(Region) :
          ret' = Called("from_timestamp_and_region",
                        [reference_datetime |-> dt, region |-> region],
                        from_timestamp_and_region(dt, region), <<>>)
    /\ pc' = "returned"
    /\ UNCHANGED <<batch, shared>>

\* ForecastCycleType(type).validate_forecast_hour(forecast_hour)
ValidateForecastHour ==
    /\ pc = "idle"
    /\ \E type \in CycleTypeNames, forecast_hour \in Hours :
          LET self == ForecastCycleType(type)
          IN  ret' = Called("validate_forecast_hour",
                            [type |-> type, forecast_hour |-> forecast_hour],
                            IF self.kind = "raise" THEN self
                            ELSE validate_forecast_hour(self.value,
                                                        forecast_hour),
                            <<>>)
    /\ pc' = "returned"
    /\ UNCHANGED <<batch, shared>>

\* ForecastCycleType(type).generate_forecast_hours()
GenerateForecastHours ==
    /\ pc = "idle"
    /\ \E type \in {"standard", "extended"} :
          ret' = Called("generate_forecast_hours", [type |-> type],
                        Return(generate_forecast_hours(
                                   ForecastCycleType(type).value)),
                        <<>>)
    /\ pc' = "returned"
    /\ UNCHANGED <<batch, shared>>

FromForecastHourAndProduct ==
    /\ pc = "idle"
    /\ \E forecast_hour \in Hours, product \in Range(Product) :
          ret' = Called("from_forecast_hour_and_product",
                        [forecast_hour |-> forecast_hour, product |-> product],
                        from_forecast_hour_and_product(forecast_hour, product),
                        <<>>)
    /\ pc' = "returned"
    /\ UNCHANGED <<batch, shared>>

FormatForecastValidString ==
    /\ pc = "idle"
    /\ \E pattern \in Patterns, forecast_hour \in Hours :
          ret' = Called("format_forecast_valid_string",
                        [forecast_valid_pattern |-> pattern,
                         forecast_hour |-> forecast_hour],
                        format_forecast_valid_string(
                            [forecast_valid_pattern |-> pattern],
                            forecast_hour),
                        <<>>)
    /\ pc' = "returned"
    /\ UNCHANGED <<batch, shared>>

CreateItem ==
    /\ pc = "idle"
    /\ \E region \in Range(Region), product \in Range(Product),
          cloud_provider \in CloudProvider, dt \in Datetimes,
          forecast_hour \in Hours, found \in BOOLEAN :
          LET out == create_item(region, product, cloud_provider, dt,
                                 forecast_hour, found)
          IN  ret' = Called("create_item",
                            [region |-> region, product |-> product,
                             cloud_provider |-> cloud_provider,
                             reference_datetime |-> dt,
                             forecast_hour |-> forecast_hour],
                            out.res, out.io)
    /\ pc' = "returned"
    /\ UNCHANGED <<batch, shared>>

\* the assembler on the parsed index of one file and the rows of the
\* reference inventory of its bucket
Assemble ==
    /\ pc = "idle"
    /\ \E n \in 0..MaxRecords, forecast_hour \in AssembleHours :
          \E rows \in [1..n -> InventoryRows] :
             LET body == [i \in 1..n |->
                             IndexLine(i, SortedList(OffsetChoices)[i],
                                       <<rows[i][1], rows[i][2], T_ANL>>)]
                 inventory == [i \in 1..n |->
                                  [row_number |-> i,
                                   level_layer |-> rows[i][2],
                                   parameter |-> rows[i][1],
                                   forecast_valid_pattern |-> rows[i][3]]]
                 index_records == parse_index(body).value
             IN  ret' = Called("assemble",
                               [index_records |-> index_records,
                                inventory |-> inventory,
                                forecast_hour |-> forecast_hour],
                               assemble(index_records, inventory,
                                        forecast_hour),
                               <<>>)
    /\ pc' = "returned"
    /\ UNCHANGED <<batch, shared>>

\* the create-item command on the arguments of a command line
CreateItemCommand ==
    /\ pc = "idle"
    /\ \E region \in CliRegions, product \in CliProducts,
          cloud_provider \in CliProviders, dt \in CliDatetimes,
          hour \in CliHours, found \in BOOLEAN :
          LET out == create_item_command(region, product, cloud_provider,
                                         dt.text, hour.text, "item.json",
                                         found)
          IN  ret' = Called("create_item_command",
                            [region |-> region, product |-> product,
                             cloud_provider |-> cloud_provider,
                             reference_datetime |-> dt,
                             forecast_hour |-> hour,
                             destination |-> "item.json"],
                            out.res, out.io)
    /\ pc' = "returned"
    /\ UNCHANGED <<batch, shared>>

\* the index parser on the content of one index file
ParseIndex ==
    /\ pc = "idle"
    /\ \E index \in IndexBodies :
          ret' = Called("parse_index", index, parse_index(index.body), <<>>)
    /\ pc' = "returned"
    /\ UNCHANGED <<batch, shared>>

(***************************************************************************)
(* generate_inventory_csv_gzs                                              *)
(***************************************************************************)
\* the call: the first iteration builds its tasks and hands them to starmap
GenerateInventoryCsvGzs ==
    /\ pc = "idle"
    /\ pc' = "starmap"
    /\ ret' = Called("generate_inventory_csv_gzs", [dest_dir |-> "dest"],
                     None, <<>>)
    /\ loop' = 1
    /\ tasks' = TasksAt(1)
    /\ taskqueue' = 1
    /\ running' = {}
    /\ map_result' = NewMapResult(Len(TasksAt(1)))
    /\ raised' = NoRaised
    /\ files' = {}
    /\ UNCHANGED shared

\* an idle worker takes the next chunk from the task queue
WorkerGet ==
    /\ pc = "starmap"
    /\ taskqueue <= NumChunks(Len(tasks))
    /\ Cardinality(running) < PoolSize
    /\ running' = running \cup {taskqueue}
    /\ taskqueue' = taskqueue + 1
    /\ UNCHANGED <<pc, ret, loop, tasks, map_result, raised, files, shared>>

\* a worker finishes its chunk and the pool records the outcome
WorkerPut ==
    /\ pc = "starmap"
    /\ \E c \in running :
          LET chunk == ChunkTasks(tasks, c)
          IN  \E answer \in {<<0, "found">>}
                                 \cup ((1..Len(chunk)) \X (Answers \ {"found"})) :
                 LET outcome == mapstar(chunk, answer[1], answer[2])
                 IN  /\ running' = running \ {c}
                     /\ map_result' = MapResultSet(map_result, c, outcome)
                     /\ raised' =
                            IF outcome.kind = "raise"
                            THEN raised \cup {outcome.exc}
                            ELSE raised
    /\ UNCHANGED <<pc, ret, loop, tasks, taskqueue, files, shared>>

\* what the call leaves behind: the last fan-out and the files written
Fanout(written) ==
    [tasks |-> Len(tasks), raised |-> raised, loop |-> loop,
     files |-> written]

Returned ==
    /\ pc' = "returned"
    /\ loop' = 0
    /\ tasks' = <<>>
    /\ taskqueue' = 0
    /\ running' = {}
    /\ map_result' = NewMapResult(0)
    /\ raised' = NoRaised
    /\ files' = {}

\* starmap returns the list or raises the recorded exception; then pd.concat,
\* to_csv and the next iteration of the loops
Starmap ==
    /\ pc = "starmap"
    /\ map_result.number_left = 0
    /\ IF ~map_result.success
       THEN \* the exception leaves the with block and the function
            /\ ret' = [ret EXCEPT !.res = Raise(map_result.value, <<>>),
                                  !.fanout = Fanout(files)]
            /\ Returned
       ELSE IF Len(tasks) = 0
       THEN \* pd.concat([]) raises
            /\ ret' = [ret EXCEPT
                           !.res = Raise("ValueError",
                                         <<"No objects to concatenate">>),
                           !.fanout = Fanout(files)]
            /\ Returned
       ELSE IF loop = NumLoops
       THEN /\ ret' = [ret EXCEPT !.res = Return(None),
                                  !.fanout =
                                      Fanout(files \cup {FileAt(loop)})]
            /\ Returned
       ELSE /\ files' = files \cup {FileAt(loop)}
            /\ loop' = loop + 1
            /\ tasks' = TasksAt(loop + 1)
            /\ taskqueue' = 1
            /\ running' = {}
            /\ map_result' = NewMapResult(Len(TasksAt(loop + 1)))
            /\ raised' = NoRaised
            /\ UNCHANGED <<pc, ret>>
    /\ UNCHANGED shared

\* the caller goes on to its next call
NextCall ==
    /\ pc = "returned"
    /\ pc' = "idle"
    /\ ret' = Called("import", None, Return(None), <<>>)
    /\ UNCHANGED <<batch, shared>>

Next ==
    \/ NextCall
    \/ FromTimestampAndRegion
    \/ ValidateForecastHour
    \/ GenerateForecastHours
    \/ FromForecastHourAndProduct
    \/ FormatForecastValidString
    \/ CreateItem
    \/ CreateItemCommand
    \/ ParseIndex
    \/ Assemble
    \/ GenerateInventoryCsvGzs
    \/ WorkerGet
    \/ WorkerPut
    \/ Starmap

Spec == Init /\ [][Next]_vars

(***************************************************************************)
(* Threads calling the core functions at the same time                     *)
(***************************************************************************)
\* a thread enters one of the calls
ThreadCall ==
    /\ \E t \in Threads, call \in ThreadCalls :
          /\ threads[t].pc = "idle"
          /\ threads' =
                 [threads EXCEPT
                     ![t] = Frame(call[1], call[2], call[3], <<>>,
                                  Return(None),
                                  \E u \in Threads :
                                      threads[u].pc \notin {"idle", "done"})]
    /\ UNCHANGED <<globals, pc, ret, batch>>

\* a thread inside format_forecast_valid_string executes its next statement
FormatStep ==
    /\ \E t \in Threads :
          /\ threads[t].op = "format_forecast_valid_string"
          /\ threads[t].pc \notin {"idle", "done"}
          /\ LET after == format_step(globals, threads[t])
             IN  /\ globals' = after.globals
                 /\ threads' = [threads EXCEPT ![t] = after.frame]
    /\ UNCHANGED <<pc, ret, batch>>

\* a thread inside one of the calendar functions executes its next statement
CalendarStep ==
    /\ \E t \in Threads :
          /\ threads[t].op \in {"from_timestamp_and_region",
                                "validate_forecast_hour",
                                "from_forecast_hour_and_product"}
          /\ threads[t].pc \notin {"idle", "done"}
          /\ LET after == calendar_step(globals, threads[t])
             IN  /\ globals' = after.globals
                 /\ threads' = [threads EXCEPT ![t] = after.frame]
    /\ UNCHANGED <<pc, ret, batch>>

NextConcurrent ==
    \/ ThreadCall
    \/ FormatStep
    \/ CalendarStep

SpecConcurrent == Init /\ [][NextConcurrent]_vars

(***************************************************************************)
(* Properties                                                              *)
(***************************************************************************)
Op(name) == pc = "returned" /\ ret.op = name

Returns(v) == ret.res.kind = "return" /\ ret.res.value = v

\* The documented forms of a forecast_valid_pattern, read off the text itself
LetterChars ==
    {"a", "b", "c", "d", "e", "f", "g", "h", "i", "j", "k", "l", "m", "n",
     "o", "p", "q", "r", "s", "t", "u", "v", "w", "x", "y", "z"}

IsNumber(cs) == cs # <<>> /\ \A i \in DOMAIN cs : IsDigit(cs[i])

IsWord(cs) == cs # <<>> /\ \A i \in DOMAIN cs : cs[i] \in LetterChars

\* "<N> <unit> fcst"
InstantForm(p) ==
    \E j \in 1..Len(p) :
        /\ IsNumber(SubSeq(p, 1, j))
        /\ j + 1 <= Len(p) /\ p[j + 1] = " "
        /\ Len(p) - 5 >= j + 2
        /\ IsWord(SubSeq(p, j + 2, Len(p) - 5))
        /\ SubSeq(p, Len(p) - 4, Len(p)) = SP_FCST

\* the readings of p as "<N1>-<N2> <unit> <stat>": <<N1, N2, unit, stat>>,
\* N1 = p[1..a], N2 = p[a+2..b], unit = p[b+2..c], stat = p[c+2..]
WindowReadings(p) ==
    LET n == Len(p)
        As == {a \in 1..n : a + 1 <= n /\ p[a + 1] = "-"
                             /\ IsNumber(SubSeq(p, 1, a))}
        Bs(a) == {b \in (a + 2)..n : b + 1 <= n /\ p[b + 1] = " "
                                       /\ IsNumber(SubSeq(p, a + 2, b))}
        Cs(b) == {c \in (b + 2)..n : c + 1 <= n /\ p[c + 1] = " "
                                       /\ IsWord(SubSeq(p, b + 2, c))
                                       /\ IsWord(SubSeq(p, c + 2, n))}
    IN  UNION {UNION {{<<SubSeq(p, 1, a), SubSeq(p, a + 2, b),
                         SubSeq(p, b + 2, c), SubSeq(p, c + 2, n)>> :
                          c \in Cs(b)} : b \in Bs(a)} : a \in As}

WindowForm(p) == WindowReadings(p) # {}

\* C1: for every reference hour 0..23 and every region,
\* from_timestamp_and_region gives "extended" exactly at the hours 0, 6, 12 and
\* 18 and "standard" at the others, so 4 of the 24 hours are extended; an item
\* built by create_item carries that type in noaa-hrrr:forecast_cycle_type.
C1_CycleTypeByHour ==
    /\ Op("from_timestamp_and_region") =>
          /\ ret.res.kind = "return"
          /\ ret.res.value.type =
                 IF ret.args.reference_datetime.hour \in {0, 6, 12, 18}
                 THEN "extended" ELSE "standard"
    /\ Op("from_timestamp_and_region") =>
          Cardinality({h \in 0..23 :
              from_timestamp_and_region([day |-> 1, hour |-> h],
                                        ret.args.region).value.type
                  = "extended"}) = 4
    /\ (Op("create_item") /\ ret.res.kind = "return") =>
          ret.res.value.properties.forecast_cycle_type =
              from_timestamp_and_region(ret.args.reference_datetime,
                                        ret.args.region).value.type

C1_Witness ==
    /\ Op("create_item")
    /\ ret.args.region = "alaska"
    /\ ret.args.reference_datetime.hour = 18
    /\ ret.res.kind = "return"
    /\ ret.res.value.properties.forecast_cycle_type = "extended"

\* C2: for both cycle types and every forecast hour, validate_forecast_hour
\* returns None exactly when 0 <= forecast_hour <= max (18 for standard, 48 for
\* extended) and raises an error in every other case.
C2_ValidateForecastHour ==
    (Op("validate_forecast_hour") /\ ret.args.type \in {"standard", "extended"})
    => LET max == IF ret.args.type = "standard" THEN 18 ELSE 48
           inside == 0 <= ret.args.forecast_hour /\ ret.args.forecast_hour <= max
       IN  /\ inside => Returns(None)
           /\ ~inside => ret.res.kind = "raise" /\ ret.res.exc = "ValueError"

C2_Witness ==
    /\ Op("validate_forecast_hour")
    /\ ret.args.type = "standard"
    /\ ret.args.forecast_hour = 18
    /\ Returns(None)

\* C3 as stated: sub-hourly hour 0 gives FH00 and any hour >= 1 gives FH01_18;
\* for the other products hours 0 and 1 give FH00_01 and hours 2..48 FH02_48.
C3_BucketAnyHour ==
    Op("from_forecast_hour_and_product") =>
        LET fh == ret.args.forecast_hour
        IN  IF ret.args.product = "subh"
            THEN /\ fh = 0 => Returns("fh00")
                 /\ fh >= 1 => Returns("fh01-18")
            ELSE /\ fh \in {0, 1} => Returns("fh00-01")
                 /\ fh \in 2..48 => Returns("fh02-48")

\* C3 amended: sub-hourly hour 0 gives FH00 and any hour 1..48 gives FH01_18;
\* for the other products hours 0 and 1 give FH00_01 and hours 2..48 FH02_48;
\* an hour outside 0..48 is rejected with a ValueError for every product.
C3_Bucket ==
    Op("from_forecast_hour_and_product") =>
        LET fh == ret.args.forecast_hour
        IN  /\ IF ret.args.product = "subh"
               THEN /\ fh = 0 => Returns("fh00")
                    /\ fh \in 1..48 => Returns("fh01-18")
               ELSE /\ fh \in {0, 1} => Returns("fh00-01")
                    /\ fh \in 2..48 => Returns("fh02-48")
            /\ fh \notin 0..48 =>
                   ret.res.kind = "raise" /\ ret.res.exc = "ValueError"

C3_Witness ==
    /\ Op("from_forecast_hour_and_product")
    /\ ret.args.product = "subh"
    /\ ret.args.forecast_hour = 48
    /\ Returns("fh01-18")

\* C4: for every region and reference hour, create_item raises its cycle run
\* hour error exactly when the hour is not one of the region's run hours (every
\* hour for conus, every third hour for alaska), and the message of that error
\* lists the run hours of the region.
C4_CycleRunHourError ==
    LET isError ==
            /\ ret.res.kind = "raise"
            /\ ret.res.exc = "ValueError"
            /\ Len(ret.res.msg) > 1
            /\ ret.res.msg[2] = " is not a valid cycle run hour for "
    IN  Op("create_item") =>
            LET hour == ret.args.reference_datetime.hour
                run == IF ret.args.region = "conus" THEN 0..23
                       ELSE {0, 3, 6, 9, 12, 15, 18, 21}
                listed ==
                    IF ret.args.region = "conus"
                    THEN "0 ,1 ,2 ,3 ,4 ,5 ,6 ,7 ,8 ,9 ,10 ,11 ,12 ,13 ,14 ,15 ,"
                         \o "16 ,17 ,18 ,19 ,20 ,21 ,22 ,23"
                    ELSE "0 ,3 ,6 ,9 ,12 ,15 ,18 ,21"
            IN  /\ isError <=> hour \notin run
                /\ isError => ret.res.msg[Len(ret.res.msg)] = listed

C4_Witness ==
    /\ Op("create_item")
    /\ ret.args.region = "alaska"
    /\ ret.args.reference_datetime.hour = 2
    /\ ret.res.kind = "raise"
    /\ ret.res.msg[Len(ret.res.msg)] = "0 ,3 ,6 ,9 ,12 ,15 ,18 ,21"

\* C5: for every pattern "<N> <unit> fcst" (any N, any unit, "min" too) and
\* every forecast hour, the result is "<forecast hour> hour fcst".
C5_InstantRule ==
    (Op("format_forecast_valid_string")
        /\ InstantForm(ret.args.forecast_valid_pattern))
    => /\ Returns(IntStr(ret.args.forecast_hour) \o " hour fcst")
       /\ (ret.args.forecast_valid_pattern = <<"3">> \o SP \o W_hour \o SP_FCST
              /\ ret.args.forecast_hour = 5) => Returns("5 hour fcst")

C5_Witness ==
    /\ Op("format_forecast_valid_string")
    /\ ret.args.forecast_valid_pattern = <<"1", "0">> \o SP \o W_min \o SP_FCST
    /\ ret.args.forecast_hour = 5
    /\ Returns("5 hour fcst")

\* C6: for every pattern "<N1>-<N2> <unit> <stat>" whose N1 is "1" and every
\* forecast hour fh, the result is "<fh-1>-<fh> <unit> <stat>", the unit and
\* the stat as given and never turned into days.
C6_RelativeWindow ==
    Op("format_forecast_valid_string") =>
        \A w \in WindowReadings(ret.args.forecast_valid_pattern) :
            (w[1] = <<"1">> /\ w[4] \in StatWords) =>
                /\ Returns(IntStr(ret.args.forecast_hour - 1) \o "-"
                           \o IntStr(ret.args.forecast_hour) \o " "
                           \o Text(w[3]) \o " " \o Text(w[4]))
                /\ (w = <<<<"1">>, <<"2">>, W_hour, W_ave>>
                       /\ ret.args.forecast_hour = 10)
                   => Returns("9-10 hour ave")

C6_Witness ==
    /\ Op("format_forecast_valid_string")
    /\ ret.args.forecast_valid_pattern =
           <<"1", "-", "2">> \o SP \o W_hour \o SP \o W_ave
    /\ ret.args.forecast_hour = 24
    /\ Returns("23-24 hour ave")

\* C7: for every pattern "<N1>-<N2> <unit> <stat>" whose N1 is not "1" and
\* every forecast hour fh in 0..48, the window starts at 0: the result is
\* "0-<fh/24> day <stat>" when fh is 0, 24 or 48 and "0-<fh> <unit> <stat>"
\* otherwise.
C7_FixedWindow ==
    (Op("format_forecast_valid_string") /\ ret.args.forecast_hour \in 0..48) =>
        \A w \in WindowReadings(ret.args.forecast_valid_pattern) :
            (w[1] # <<"1">> /\ w[4] \in StatWords) =>
                LET fh == ret.args.forecast_hour
                IN  /\ fh \in {0, 24, 48} =>
                           Returns("0-" \o IntStr(fh \div 24) \o " day "
                                   \o Text(w[4]))
                    /\ fh \notin {0, 24, 48} =>
                           Returns("0-" \o IntStr(fh) \o " " \o Text(w[3])
                                   \o " " \o Text(w[4]))
                    /\ (w = <<<<"0">>, <<"1">>, W_hour, W_acc>> /\ fh = 1)
                       => Returns("0-1 hour acc")

C7_Witness ==
    /\ Op("format_forecast_valid_string")
    /\ ret.args.forecast_valid_pattern =
           <<"0", "-", "2", "4">> \o SP \o W_hour \o SP \o W_acc
    /\ ret.args.forecast_hour = 48
    /\ Returns("0-2 day acc")

\* C8: for every pattern that is neither "analysis" nor of the form
\* "<N> <unit> fcst" nor of the form "<N1>-<N2> <unit> <stat>", and every
\* forecast hour, format_forecast_valid_string raises an error whose message
\* holds the pattern; it returns no string.
C8_UnrecognizedPatternRaises ==
    (Op("format_forecast_valid_string")
        /\ ret.args.forecast_valid_pattern # ANALYSIS
        /\ ~InstantForm(ret.args.forecast_valid_pattern)
        /\ ~WindowForm(ret.args.forecast_valid_pattern))
    => /\ ret.res.kind = "raise"
       /\ Text(ret.args.forecast_valid_pattern) \in Range(ret.res.msg)

\* C9: a fan-out of which some tasks fail with a not-found error and none with
\* another error does not raise.
C9_NotFoundTolerated ==
    (Op("generate_inventory_csv_gzs")
        /\ ret.fanout.raised = {"NotFoundError"})
    => ret.res.kind # "raise"

\* C10: when a task of a fan-out fails with an error other than not-found,
\* that error reaches the caller, the call ends and the file of that fan-out is
\* not written.
C10_OtherErrorPropagates ==
    (Op("generate_inventory_csv_gzs") /\ "OtherError" \in ret.fanout.raised)
    => /\ ret.res.kind = "raise"
       /\ ret.res.exc = "OtherError"
       /\ FileAt(ret.fanout.loop) \notin ret.fanout.files

\* C11: for every index of n records in row-number order, the byte length of
\* record i (i < n) is start_offset(i+1) - start_offset(i) and the byte length
\* of the last record is null; the start offsets 0, 120, 340 give the lengths
\* 120, 220, null, and an empty index body gives the empty sequence, no error.
C11_ByteLengths ==
    (Op("parse_index") /\ ret.args.well_formed) =>
        LET offs == ret.args.start_offsets
            n == Len(offs)
            out == ret.res.value
        IN  /\ ret.res.kind = "return"
            /\ Len(out) = n
            /\ \A i \in 1..n :
                   /\ out[i].row_number = i
                   /\ out[i].start_byte = offs[i]
                   /\ i < n => out[i].byte_length = <<offs[i + 1] - offs[i]>>
                   /\ i = n => out[i].byte_length = Null
            /\ offs = <<0, 120, 340>> =>
                   [i \in 1..n |-> out[i].byte_length] = <<<<120>>, <<220>>, Null>>
            /\ ret.args.body = <<>> => out = <<>>

C11_Witness ==
    /\ Op("parse_index")
    /\ ret.args.start_offsets = <<0, 120, 340>>
    /\ ret.res.kind = "return"
    /\ ret.res.value[2].byte_length = <<220>>
    /\ ret.res.value[3].byte_length = Null

\* The key of a record, read off the record and the inventory
KeyOf(args, i) ==
    <<args.index_records[i].variable, args.index_records[i].level,
      format_forecast_valid_string(args.inventory[i], args.forecast_hour)>>

\* C12: when two index records of one file normalize to the same key
\* variable__level__forecast-time, assembling the layer map fails with an
\* error; a map that is returned has exactly one entry per input record, none
\* overwritten by a later record.
C12_KeyCollisionsRejected ==
    Op("assemble") =>
        LET records == ret.args.index_records
            collide == \E i, j \in DOMAIN records :
                          i < j /\ KeyOf(ret.args, i) = KeyOf(ret.args, j)
        IN  /\ collide => ret.res.kind = "raise"
            /\ ret.res.kind = "return" =>
                   /\ Cardinality(DOMAIN ret.res.value) = Len(records)
                   /\ \A i \in DOMAIN records :
                          \E k \in DOMAIN ret.res.value :
                             ret.res.value[k].start_byte = records[i].start_byte

C12_Witness ==
    /\ Op("assemble")
    /\ Len(ret.args.index_records) = 2
    /\ ret.args.forecast_hour = 5
    /\ ret.args.inventory[1].forecast_valid_pattern # ret.args.inventory[2].forecast_valid_pattern
    /\ ret.res.kind = "raise"
    /\ ret.res.exc = "LayerKeyCollisionError"
    /\ ret.res.msg = <<"APCP__surface__0-5 hour acc">>

\* C13: whenever validate_forecast_hour rejects a forecast hour, the message
\* of the error states the valid range of the cycle type, 0-18 for standard
\* and 0-48 for extended: one of its parts is the maximum of the range (the
\* fixed parts of the message hold no number).
C13_ErrorStatesRange ==
    LET max(type) == IF type = "standard" THEN 18 ELSE 48
        stated(type) == \E i \in DOMAIN ret.res.msg :
                           ret.res.msg[i] \in {IntStr(max(type)),
                                               "0-" \o IntStr(max(type))}
    IN  /\ (Op("validate_forecast_hour") /\ ret.res.kind = "raise"
               /\ ret.args.type \in {"standard", "extended"})
           => stated(ret.args.type)
        /\ (Op("create_item") /\ ret.res.kind = "raise"
               /\ ret.res.msg # <<>>
               /\ ret.res.msg[1] = "The provided forecast_hour (")
           => stated(from_timestamp_and_region(ret.args.reference_datetime,
                                               ret.args.region).value.type)

\* the id the items of a region, reference datetime and forecast hour are to
\* carry
ExpectedId(region, dt, forecast_hour) ==
    Join("-", <<"hrrr", region, "2024", "05",
                Pad2(dt.day) \o "T" \o Pad2(dt.hour),
                "FH" \o IntStr(forecast_hour)>>)

\* the ids of the items create_item returns, each with the region, the day
\* and hour of the reference datetime and the forecast hour it was made for
ItemIds ==
    {<<e[4].res.value.id, e[1], e[2].day, e[2].hour, e[3]>> :
        e \in {<<x[1], x[2], x[3],
                 create_item(x[1], "sfc", "azure", x[2], x[3], TRUE)>> :
                   x \in {y \in Range(Region) \X Datetimes \X Hours :
                      create_item(y[1], "sfc", "azure", y[2], y[3],
                                  TRUE).res.kind = "return"}}}

\* C14: for every accepted region, reference datetime and forecast hour,
\* create_item returns an item whose id is
\* "hrrr-<region>-<reference datetime as YYYY-MM-DDTHH>-FH<forecast hour>" and
\* whose forecast:reference_time is the reference datetime; another item has
\* the same id exactly when it agrees on the region, on the reference datetime
\* to the hour and on the forecast hour (the id holds neither the product nor
\* the cloud provider, so the items of one product and provider are compared).
C14_ItemIdentity ==
    (Op("create_item") /\ ret.res.kind = "return") =>
        LET a == ret.args
            dt == a.reference_datetime
            item == ret.res.value
        IN  /\ item.id = ExpectedId(a.region, dt, a.forecast_hour)
            /\ item.properties.reference_time =
                   "2024-05-" \o Pad2(dt.day) \o "T" \o Pad2(dt.hour) \o ":"
                       \o Pad2(dt.minute) \o ":00"
            /\ (a.product = "sfc" /\ a.cloud_provider = "azure") =>
                   {e \in ItemIds : e[1] = item.id}
                       = {<<item.id, a.region, dt.day, dt.hour, a.forecast_hour>>}

C14_Witness ==
    /\ Op("create_item")
    /\ ret.args.region = "alaska"
    /\ ret.args.reference_datetime =
           [year |-> 2024, month |-> 5, day |-> 1, hour |-> 6, minute |-> 30]
    /\ ret.args.forecast_hour = 12
    /\ ret.res.kind = "return"
    /\ ret.res.value.id = "hrrr-alaska-2024-05-01T06-FH12"
    /\ ret.res.value.properties.reference_time = "2024-05-01T06:30:00"

Alone(frame) ==
    CASE frame.op = "format_forecast_valid_string" ->
           format_forecast_valid_string(
               INVENTORY[frame.args.key][frame.args.index],
               frame.args.forecast_hour)
      [] frame.op = "from_timestamp_and_region" ->
           from_timestamp_and_region(frame.args.reference_datetime,
                                     frame.args.region)
      [] frame.op = "validate_forecast_hour" ->
           validate_forecast_hour(ForecastCycleType(frame.args.type).value,
                                  frame.args.forecast_hour)
      [] frame.op = "from_forecast_hour_and_product" ->
           from_forecast_hour_and_product(frame.args.forecast_hour,
                                          frame.args.product)

\* C16: whatever the interleaving of the statements of concurrent calls of
\* from_timestamp_and_region, validate_forecast_hour,
\* from_forecast_hour_and_product and format_forecast_valid_string,
\* INVENTORY (and in it the Variable being formatted), REGION_CONFIGS and
\* PRODUCT_FORECAST_HOUR_SETS stay as the import left them, and every call
\* that has returned has the result it has when run alone.
C16_NoSharedMutableState ==
    /\ globals.INVENTORY = INVENTORY
    /\ globals.REGION_CONFIGS = REGION_CONFIGS
    /\ globals.PRODUCT_FORECAST_HOUR_SETS = PRODUCT_FORECAST_HOUR_SETS
    /\ \A t \in Threads :
          threads[t].pc = "done" => threads[t].res = Alone(threads[t])

\* two calls of the formatter on the same Variable, for different hours,
\* the second entered while the first was running, both returned
C16_Witness ==
    \E t, u \in Threads :
       /\ t # u
       /\ threads[t].pc = "done" /\ threads[u].pc = "done"
       /\ threads[t].op = "format_forecast_valid_string"
       /\ threads[u].op = "format_forecast_valid_string"
       /\ threads[t].args.index = 2 /\ threads[u].args.index = 2
       /\ threads[t].args.forecast_hour = 5
       /\ threads[u].args.forecast_hour = 24
       /\ threads[u].overlaps
       /\ threads[t].res = Return("5 hour fcst")
       /\ threads[u].res = Return("24 hour fcst")

\* C17: the matchers are tried in the order analysis, "<N> <unit> fcst",
\* "<N1>-<N2> <unit> <stat>": the pattern "analysis" gives "analysis" at every
\* forecast hour; a pattern of the windowed form (its stat an aggregation
\* keyword) gives a window "<start>-<end> <unit> <stat>" that keeps the stat,
\* never "<fh> hour fcst"; and a pattern both regular expressions match is
\* rendered by the first of the two, as "<fh> hour fcst".
C17_DispatchOrder ==
    Op("format_forecast_valid_string") =>
        LET p == ret.args.forecast_valid_pattern
            fh == ret.args.forecast_hour
        IN  /\ p = ANALYSIS => Returns("analysis")
            /\ \A w \in WindowReadings(p) :
                   w[4] \in StatWords =>
                       /\ ret.res.kind = "return"
                       /\ ret.res.value # IntStr(fh) \o " hour fcst"
                       /\ ret.res.value \in
                              {IntStr(a) \o "-" \o IntStr(b) \o " " \o u
                               \o " " \o Text(w[4]) :
                                  a \in {0, fh - 1}, b \in {fh, fh \div 24},
                                  u \in {Text(w[3]), "day"}}
            /\ (SearchFcst(p).matched /\ SearchWindow(p).matched) =>
                   Returns(IntStr(fh) \o " hour fcst")

\* a pattern both regular expressions match, rendered at hour 5
C17_Witness ==
    /\ Op("format_forecast_valid_string")
    /\ ret.args.forecast_valid_pattern =
           <<"0", "-", "1">> \o SP \o W_hour \o SP \o W_acc \o SP_FCST
    /\ SearchWindow(ret.args.forecast_valid_pattern).matched
    /\ ret.args.forecast_hour = 5
    /\ Returns("5 hour fcst")

\* C18: in create_item the cycle run hour is checked first, the forecast hour
\* second, and the store (Herbie) is consulted only when both checks pass: a
\* call that fails either check raises without any retrieval and returns no
\* item, and when both the reference hour and the forecast hour are invalid
\* the error is the one of the cycle run hour.
C18_ValidationBeforeRetrieval ==
    Op("create_item") =>
        LET hour == ret.args.reference_datetime.hour
            fh == ret.args.forecast_hour
            bad_run_hour ==
                hour \notin
                    Range(REGION_CONFIGS[ret.args.region].cycle_run_hours)
            max == IF hour % 6 = 0 THEN EXTENDED_FORECAST_MAX_HOUR
                   ELSE STANDARD_FORECAST_MAX_HOUR
            bad_forecast_hour == fh < 0 \/ fh > max
        IN  /\ (bad_run_hour \/ bad_forecast_hour) =>
                   /\ ret.io = <<>>
                   /\ ret.res.kind = "raise"
                   /\ ret.res.exc = "ValueError"
            /\ bad_run_hour =>
                   /\ Len(ret.res.msg) = 5
                   /\ ret.res.msg[2] = " is not a valid cycle run hour for "
            /\ (~bad_run_hour /\ bad_forecast_hour) =>
                   ret.res.msg[1] = "The provided forecast_hour ("
            /\ (~bad_run_hour /\ ~bad_forecast_hour) =>
                   /\ Len(ret.io) = 1
                   /\ ret.io[1].fxx = fh
                   /\ ret.io[1].date = ret.args.reference_datetime

\* alaska at hour 2 asked for forecast hour 50: both invalid, the error is
\* the one of the cycle run hour and the store is not consulted
C18_Witness ==
    /\ Op("create_item")
    /\ ret.args.region = "alaska"
    /\ ret.args.reference_datetime.hour = 2
    /\ ret.args.forecast_hour = 50
    /\ ret.io = <<>>
    /\ ret.res.kind = "raise"
    /\ ret.res.msg[2] = " is not a valid cycle run hour for "

\* C19: for each cycle type, the list generate_forecast_hours returns holds
\* exactly the forecast hours validate_forecast_hour accepts for that type:
\* every hour from 0 to the maximum of the type, each once, ascending.
C19_GeneratedAreAccepted ==
    Op("generate_forecast_hours") =>
        LET self == ForecastCycleType(ret.args.type).value
            accepted ==
                {h \in Hours :
                    validate_forecast_hour(self, h).kind = "return"}
            hours == ret.res.value
        IN  /\ Range(hours) = accepted
            /\ Len(hours) = Cardinality(accepted)
            /\ \A i \in DOMAIN hours : hours[i] = i - 1
            /\ hours[Len(hours)] = self.max_forecast_hour

\* C20: a ForecastCycleType lists prs, nat and sfc for both types and subh
\* for "standard" only, and create_item returns an item only for a product
\* in the list of the cycle type of its reference datetime: a subh item at
\* an extended cycle (reference hour 0, 6, 12 or 18) is rejected.
C20_ProductsFollowCycleType ==
    /\ Op("from_timestamp_and_region") =>
          /\ ret.res.kind = "return"
          /\ Range(ret.res.value.products) =
                 IF ret.res.value.type = "standard"
                 THEN {"prs", "nat", "sfc", "subh"}
                 ELSE {"prs", "nat", "sfc"}
    /\ (Op("create_item") /\ ret.res.kind = "return") =>
          ret.args.product \in
              Range(from_timestamp_and_region(ret.args.reference_datetime,
                                              ret.args.region).value.products)

====
